---- MODULE Spec2Model ----
(***************************************************************************)
(* A model of pycheese's chess rules engine: the Board class of            *)
(* src/pycheese/core/board.py over the entities of                          *)
(* src/pycheese/core/entity.py.                                             *)
(*                                                                          *)
(* The grid is board[y][x], as in the source.  An entity is a record; its   *)
(* fields are the attributes of the Python object (Empty: coord, attacked;  *)
(* Piece: also player, pinned, attacker; Pawn: start; Rook and King:        *)
(* moved).  Python objects are shared by reference: where the source puts   *)
(* one object into two grids, the model copies the flags back.              *)
(*                                                                          *)
(* Conventions taken from the source as it stands:                          *)
(*  - board.py calls set_attacker/get_attacker on pieces; entity.py names   *)
(*    the same attribute pinner.  The model calls the field attacker.       *)
(*  - board.py hands Boundary.accepts one integer at a time; the Board is   *)
(*    modelled with the range test on that integer (accepts).  The method   *)
(*    as utils.py has it is Boundary_accepts, called on the Boundary object *)
(*    of the variable boundary; answer is what its last call gave.          *)
(***************************************************************************)
EXTENDS Integers, Sequences, FiniteSets, TLC

VARIABLES board, state, player, ret, calls, boundary, answer

vars == <<board, state, player, ret, calls, boundary, answer>>

---------------------------------------------------------------------------
(* utils.py *)

\* Python's None, for an attribute that holds a coordinate or None.
None == <<>>

\* Boundary(min, max).accepts(value) for one integer: value in range(min, max).
accepts(min, max, value) == value >= min /\ value < max

\* Lines 130-132: the Boundary object.
Boundary(min, max) == [min |-> min, max |-> max]

\* Python's range(start, stop).
range(start, stop) == start .. (stop - 1)

\* An argument of Boundary.accepts: one integer, or a tuple or list of
\* integers.  items holds the integer, or the elements in order.
IntValue(v) == [is_int |-> TRUE, items |-> <<v>>]
TupleValue(items) == [is_int |-> FALSE, items |-> items]

\* Lines 139-158.  tuple(value) of an integer raises TypeError (an int is not
\* iterable); a tuple is accepted when every element is in the range.
Boundary_accepts(self, value) ==
    IF value.is_int
    THEN [error |-> "TypeError", result |-> FALSE]
    ELSE [error |-> "none",
          result |-> \A i \in 1..Len(value.items) :
                        value.items[i] \in range(self.min, self.max)]

\* normalize(x): the sign of x.
normalize(x) == IF x > 0 THEN 1 ELSE IF x < 0 THEN -1 ELSE 0

Min(a, b) == IF a < b THEN a ELSE b
Max(a, b) == IF a > b THEN a ELSE b

\* A Python list index: a negative index counts from the end of the 8 rows.
PyIndex(i) == IF i < 0 THEN i + 8 ELSE i

---------------------------------------------------------------------------
(* entity.py *)

PieceTypes == {"Pawn", "Knight", "Bishop", "Rook", "Queen", "King"}

Empty(c) == [type |-> "Empty", coord |-> c, attacked |-> FALSE]

\* Piece.__init__ and the subclasses' __init__: a fresh piece.
Piece(t, c, p) ==
    LET base == [type |-> t, coord |-> c, attacked |-> FALSE, player |-> p,
                 pinned |-> FALSE, attacker |-> None]
    IN  CASE t = "Pawn" -> base @@ [start |-> c]
          [] t \in {"Rook", "King"} -> base @@ [moved |-> FALSE]
          [] OTHER -> base

\* What get_promotion_target returns for an unknown kind: Python's None in a cell.
NoneCell == [type |-> "None"]

IsPiece(e) == e.type \in PieceTypes
IsEmpty(e) == e.type = "Empty"

\* The movement templates (class attribute moves), in the source's order.
PawnMoves == <<<<0, 1>>>>
PawnAttackMoves == <<<<-1, 1>>, <<1, 1>>>>
PawnSpecialMove == <<0, 2>>
KnightMoves == << <<-1, 2>>, <<1, 2>>, <<2, 1>>, <<2, -1>>,
                  <<1, -2>>, <<-1, -2>>, <<-2, -1>>, <<-2, 1>> >>
BishopMoves == << <<-1, 1>>, <<1, 1>>, <<1, -1>>, <<-1, -1>> >>
RookMoves == << <<0, 1>>, <<1, 0>>, <<0, -1>>, <<-1, 0>> >>
QueenMoves == << <<0, 1>>, <<1, 0>>, <<0, -1>>, <<-1, 0>>,
                 <<-1, 1>>, <<1, 1>>, <<1, -1>>, <<-1, -1>> >>
KingMoves == QueenMoves

get_moves(piece) ==
    CASE piece.type = "Pawn" -> PawnMoves
      [] piece.type = "Knight" -> KnightMoves
      [] piece.type = "Bishop" -> BishopMoves
      [] piece.type = "Rook" -> RookMoves
      [] piece.type = "Queen" -> QueenMoves
      [] piece.type = "King" -> KingMoves

\* Pawn.can_special: the pawn still stands on the coordinate it was created on.
can_special(piece) == piece.start = piece.coord

Other(p) == IF p = "black" THEN "white" ELSE "black"

\* The y-component of a template vector as the piece walks it.
SideDy(piece, dy) == IF piece.player = "white" THEN -dy ELSE dy

SeqToSet(s) == {s[i] : i \in 1..Len(s)}

---------------------------------------------------------------------------
(* board.py: initial_board, empty_board *)

BackRank == <<"Rook", "Knight", "Bishop", "Queen", "King", "Bishop", "Knight", "Rook">>

initial_board ==
    [y \in 0..7 |-> [x \in 0..7 |->
        CASE y = 0 -> Piece(BackRank[x + 1], <<x, y>>, "black")
          [] y = 1 -> Piece("Pawn", <<x, y>>, "black")
          [] y = 6 -> Piece("Pawn", <<x, y>>, "white")
          [] y = 7 -> Piece(BackRank[x + 1], <<x, y>>, "white")
          [] OTHER -> Empty(<<x, y>>)]]

empty_board == [y \in 0..7 |-> [x \in 0..7 |-> Empty(<<x, y>>)]]

---------------------------------------------------------------------------
(* board.py: get_piece_moves, lines 496-565: walking the template vectors *)

\* What one walk gives: the squares appended to piece_moves, the squares whose
\* piece set_pinned(True) was called on, and whether self.state was set to check.
NoRay == [sq |-> <<>>, pins |-> {}, check |-> FALSE]

\* Lines 543-558: from the piece on (x, y), scan on along (dx, dy); TRUE when the
\* scan meets a King of the other side before any other piece.
RECURSIVE KingBehind(_, _, _, _, _, _)
KingBehind(b, owner, x, y, dx, dy) ==
    IF ~(accepts(0, 8, x + dx) /\ accepts(0, 8, y + dy)) THEN FALSE
    ELSE LET tmp_square == b[y + dy][x + dx]
         IN  IF IsPiece(tmp_square)
             THEN tmp_square.player # owner /\ tmp_square.type = "King"
             ELSE KingBehind(b, owner, x + dx, y + dy, dx, dy)

\* Lines 509-565: the while loop for one vector, from (x, y).
RECURSIVE Walk(_, _, _, _, _, _, _)
Walk(b, piece, x, y, dx, dy, attacking) ==
    IF ~(accepts(0, 8, x + dx) /\ accepts(0, 8, y + dy)) THEN NoRay
    ELSE
      LET nx == x + dx
          ny == y + dy
          square == b[ny][nx]
          occupied == IsPiece(square)
          same_player_possesion == occupied /\ square.player = piece.player
      IN  IF occupied /\ ~attacking /\ same_player_possesion THEN NoRay
          ELSE
            LET check == occupied /\ square.type = "King" /\ ~attacking
                pin == /\ occupied
                       /\ ~check
                       /\ piece.type \in {"Bishop", "Rook", "Queen"}
                       /\ KingBehind(b, piece.player, nx, ny, dx, dy)
                stop == \/ occupied /\ (attacking => same_player_possesion)
                        \/ piece.type \in {"Pawn", "Knight", "King"}
                rest == IF stop THEN NoRay
                        ELSE Walk(b, piece, nx, ny, dx, dy, attacking)
            IN  [sq |-> <<<<nx, ny>>>> \o rest.sq,
                 pins |-> (IF pin THEN {<<nx, ny>>} ELSE {}) \cup rest.pins,
                 check |-> check \/ rest.check]

\* Lines 496-565: every vector of the template in turn.
RECURSIVE WalkAll(_, _, _, _, _, _)
WalkAll(b, piece, piece_coord, moves, i, attacking) ==
    IF i > Len(moves) THEN NoRay
    ELSE LET one == Walk(b, piece, piece_coord[1], piece_coord[2],
                         moves[i][1], SideDy(piece, moves[i][2]), attacking)
             rest == WalkAll(b, piece, piece_coord, moves, i + 1, attacking)
         IN  [sq |-> one.sq \o rest.sq,
              pins |-> one.pins \cup rest.pins,
              check |-> one.check \/ rest.check]

\* square.set_pinned(True); square.set_attacker(coord) on every square of pins.
SetPinned(b, pins, coord) ==
    IF pins = {} THEN b
    ELSE [y \in 0..7 |-> [x \in 0..7 |->
            IF <<x, y>> \in pins
            THEN [b[y][x] EXCEPT !.pinned = TRUE, !.attacker = coord]
            ELSE b[y][x]]]

(* lines 567-623: the pawn's own rules *)

\* Lines 570-602: attacking_moves.
PawnAttacking(b, piece, piece_coord, attacking) ==
    LET Target(i) == <<piece_coord[1] + PawnAttackMoves[i][1],
                       piece_coord[2] + SideDy(piece, PawnAttackMoves[i][2])>>
        Keep(c) == /\ accepts(0, 8, c[1]) /\ accepts(0, 8, c[2])
                   /\ LET square == b[c[2]][c[1]]
                      IN  IF IsPiece(square)
                          THEN square.player # piece.player
                          ELSE attacking
    IN  SelectSeq(<<Target(1), Target(2)>>, Keep)

\* Lines 615-623: the destination of the special move when it is added; the
\* source indexes board[y][x] without a bounds check.
PawnSpecial(b, piece, piece_coord) ==
    LET x == piece_coord[1] + PawnSpecialMove[1]
        y == piece_coord[2] + SideDy(piece, PawnSpecialMove[2])
    IN  IF can_special(piece) /\ y < 8 /\ IsEmpty(b[PyIndex(y)][PyIndex(x)])
        THEN <<<<x, y>>>> ELSE <<>>

\* Line 622 raises IndexError when the special move points past the last row.
PawnSpecialIndexError(piece, piece_coord) ==
    /\ piece.type = "Pawn"
    /\ can_special(piece)
    /\ piece_coord[2] + SideDy(piece, PawnSpecialMove[2]) > 7

(* lines 625-662: a pinned piece keeps the moves on the line_of_attack *)

RECURSIVE LineFrom(_, _, _, _, _, _, _, _)
LineFrom(x, y, dx, dy, start_x, stop_x, start_y, stop_y) ==
    IF accepts(start_x, stop_x, x + dx) /\ accepts(start_y, stop_y, y + dy)
    THEN {<<x + dx, y + dy>>}
         \cup LineFrom(x + dx, y + dy, dx, dy, start_x, stop_x, start_y, stop_y)
    ELSE {}

line_of_attack(piece_coord, attacker) ==
    LineFrom(piece_coord[1], piece_coord[2],
             normalize(attacker[1] - piece_coord[1]),
             normalize(attacker[2] - piece_coord[2]),
             Min(attacker[1], piece_coord[1]), Max(attacker[1], piece_coord[1]),
             Min(attacker[2], piece_coord[2]), Max(attacker[2], piece_coord[2]))

\* Lines 485-623 without the filter of lines 625-662: a pinned piece keeps
\* every candidate move.
CandidatesNoPin(b, piece, piece_coord, walked, attacking) ==
    IF piece.type # "Pawn" THEN walked.sq
    ELSE IF attacking THEN PawnAttacking(b, piece, piece_coord, attacking)
    ELSE walked.sq \o PawnAttacking(b, piece, piece_coord, attacking)
                   \o PawnSpecial(b, piece, piece_coord)

\* Lines 485-662: the candidate moves before the check and castling sections.
Candidates(b, piece, piece_coord, walked, attacking) ==
    LET generic == walked.sq
        pawned == IF piece.type # "Pawn" THEN generic
                  ELSE IF attacking
                       THEN PawnAttacking(b, piece, piece_coord, attacking)
                       ELSE generic
                            \o PawnAttacking(b, piece, piece_coord, attacking)
                            \o PawnSpecial(b, piece, piece_coord)
    IN  IF piece.pinned
        THEN LET line == line_of_attack(piece_coord, piece.attacker)
                 OnLine(m) == m \in line
             IN  SelectSeq(pawned, OnLine)
        ELSE pawned

---------------------------------------------------------------------------
(* board.py: get_player_pieces, get_piece_moves, get_player_moves,         *)
(* get_attacked_squares                                                     *)

\* The cells of the grid in the order the source's nested loops visit them.
Cells == [i \in 1..64 |-> <<(i - 1) % 8, (i - 1) \div 8>>]

\* Lines 789-800: the cells that hold a piece of the player, in grid order.
get_player_pieces(who, b) ==
    LET Mine(c) == IsPiece(b[c[2]][c[1]]) /\ b[c[2]][c[1]].player = who
    IN  SelectSeq(Cells, Mine)

\* Lines 683-686 and 804-808: the cell of the player's King; None without one.
KingCell(who, b) ==
    LET IsKing(c) == b[c[2]][c[1]].type = "King"
        kings == SelectSeq(get_player_pieces(who, b), IsKing)
    IN  IF kings = <<>> THEN None ELSE kings[1]

\* An uncaught Python error that is none of the errors move() documents.
NoError == "none"

RECURSIVE get_piece_moves(_, _, _, _, _, _, _)
RECURSIVE PlayerMovesFold(_, _, _, _, _, _, _, _)
RECURSIVE Evade(_, _, _, _, _, _, _, _)

\* Lines 827-844.  Returns the moves as a set (the source tests membership and
\* emptiness only), the grid with the flags the walk set, and self.state.
get_player_moves(who, b, attacking, with_pieces, st, pl) ==
    PlayerMovesFold(get_player_pieces(who, b), 1, b, attacking, with_pieces,
                    st, pl, {})

\* Lines 836-842: the rest of the loop, r being what get_piece_moves gave for
\* the i-th piece.
PlayerMovesStep(pieces, i, attacking, with_pieces, pl, acc, coord, r) ==
    IF r.error # NoError
    THEN [moves |-> acc, board |-> r.board, state |-> r.state,
          error |-> r.error]
    ELSE PlayerMovesFold(pieces, i + 1, r.board, attacking, with_pieces,
                         r.state, pl,
                         acc \cup SeqToSet(r.moves)
                             \cup (IF with_pieces THEN {coord} ELSE {}))

\* Lines 834-844: the loop over the pieces, from the i-th on.
PlayerMovesFold(pieces, i, b, attacking, with_pieces, st, pl, acc) ==
    IF i > Len(pieces)
    THEN [moves |-> acc, board |-> b, state |-> st, error |-> NoError]
    ELSE PlayerMovesStep(pieces, i, attacking, with_pieces, pl, acc,
                         b[pieces[i][2]][pieces[i][1]].coord,
                         get_piece_moves(pieces[i],
                                         b[pieces[i][2]][pieces[i][1]].coord,
                                         TRUE, attacking, b, st, pl))

\* Lines 865-873: the moves of the player who is not to move, attacking.
get_attacked_squares(b, with_pieces, st, pl) ==
    get_player_moves(Other(pl), b, TRUE, with_pieces, st, pl)

\* Lines 704-713 for one candidate.  The loop of lines 683-686 has rebound
\* `piece` to the King, so it is the King object itself that line 707 puts on
\* the target square of the copied grid: the flags the simulated walk sets on
\* it (tmp.board[y][x]) stay on the King of the real grid.
EvadeStep(moves, i, b, piece_coord, king_at, attacked_squares, pl, kept, tmp) ==
    Evade(moves, i + 1,
          [b EXCEPT ![king_at[2]][king_at[1]] =
              [@ EXCEPT !.pinned = tmp.board[moves[i][2]][moves[i][1]].pinned,
                        !.attacker =
                            tmp.board[moves[i][2]][moves[i][1]].attacker]],
          piece_coord, king_at, attacked_squares, pl,
          IF b[king_at[2]][king_at[1]].coord \notin tmp.moves
          THEN Append(kept, moves[i]) ELSE kept)

\* Lines 702-713: the candidate moves one after the other, from the i-th on.
Evade(moves, i, b, piece_coord, king_at, attacked_squares, pl, kept) ==
    IF i > Len(moves) THEN [moves |-> kept, board |-> b]
    ELSE IF moves[i] \notin attacked_squares
    THEN Evade(moves, i + 1, b, piece_coord, king_at, attacked_squares,
               pl, kept)
    ELSE EvadeStep(moves, i, b, piece_coord, king_at, attacked_squares, pl,
                   kept,
                   get_attacked_squares(
                       [b EXCEPT ![moves[i][2]][moves[i][1]] =
                                     b[king_at[2]][king_at[1]],
                                 ![piece_coord[2]][piece_coord[1]] =
                                     Empty(piece_coord)],
                       FALSE, "ongoing", pl))

\* Lines 974-991.
can_player_castle(piece, find_others, attacking, st) ==
    /\ st # "check"
    /\ piece.type = "King"
    /\ find_others
    /\ ~attacking

\* Lines 725-756: the castling options of an unmoved King on piece_coord.
Castles(b, piece, piece_coord) ==
    LET piece_x == piece_coord[1]
        piece_y == piece_coord[2]
        Option(step) ==
            LET companion_x == IF step = -1 THEN 0 ELSE 7
                companion == b[piece_y][companion_x]
                path == IF step = 1 THEN 5..6 ELSE 1..3
                piece_move == <<piece_x + step * 2, piece_y>>
            IN  IF /\ companion.type = "Rook"
                   /\ ~companion.moved
                   /\ \A x \in path : /\ ~IsPiece(b[piece_y][x])
                                      /\ ~b[piece_y][x].attacked
                THEN <<[companion |-> <<companion_x, piece_y>>,
                        companion_move |-> <<piece_move[1] - step, piece_y>>,
                        piece_move |-> piece_move]>>
                ELSE <<>>
    IN  IF piece.moved THEN <<>> ELSE Option(-1) \o Option(1)

\* Line 758 after castling: the destinations of others join piece_moves.
WithCastles(candidates, others, b, st) ==
    [moves |-> candidates \o [i \in 1..Len(others) |-> others[i].piece_move],
     others |-> others, board |-> b, state |-> st, error |-> NoError]

\* Lines 700-716: what the check branch returns for a piece that is no King.
Evaded(ev) ==
    [moves |-> ev.moves, others |-> <<>>, board |-> ev.board,
     state |-> "check", error |-> NoError]

\* Lines 695-716, att being the attacked squares of line 700.
EvadeAll(candidates, piece_coord, king_at, pl, att) ==
    Evaded(Evade(candidates, 1, att.board, piece_coord, king_at, att.moves,
                 pl, <<>>))

\* Lines 664-758: the check branch and castling, after the walks (b and st
\* as the walks left them) with the moves found so far.
Rules(piece, piece_coord, find_others, attacking, b, st, pl, candidates) ==
    IF PawnSpecialIndexError(piece, piece_coord) /\ ~attacking
    THEN [moves |-> <<>>, others |-> <<>>, board |-> b, state |-> st,
          error |-> "IndexError"]
    ELSE IF st = "check" /\ piece.player = pl
    THEN IF piece.type = "King"
         THEN LET Free(m) == ~b[m[2]][m[1]].attacked
              IN  [moves |-> SelectSeq(candidates, Free), others |-> <<>>,
                   board |-> b, state |-> st, error |-> NoError]
         ELSE IF KingCell(pl, b) = None
         THEN [moves |-> <<>>, others |-> <<>>, board |-> b,
               state |-> st, error |-> "AttributeError"]
         ELSE EvadeAll(candidates, piece_coord, KingCell(pl, b), pl,
                       get_attacked_squares(b, TRUE, "ongoing", pl))
    ELSE IF can_player_castle(piece, find_others, attacking, st)
    THEN WithCastles(candidates, Castles(b, piece, piece_coord), b, st)
    ELSE [moves |-> candidates, others |-> <<>>, board |-> b,
          state |-> st, error |-> NoError]

\* Lines 496-662, walked being what the walks of lines 496-565 gave.
Walked(piece, piece_coord, find_others, attacking, b, st, pl, walked) ==
    Rules(piece, piece_coord, find_others, attacking,
          SetPinned(b, walked.pins, piece.coord),
          IF walked.check THEN "check" ELSE st, pl,
          Candidates(b, piece, piece_coord, walked, attacking))

\* Lines 454-758.  `at` is the cell that holds the piece object, piece_coord the
\* coordinate the caller passes; b is the grid walked, st and pl are self.state
\* and self.player.  Returns piece_moves and others, and what the call left
\* behind: the grid with its flags, self.state, and an uncaught error if any.
get_piece_moves(at, piece_coord, find_others, attacking, b, st, pl) ==
    Walked(b[at[2]][at[1]], piece_coord, find_others, attacking, b, st, pl,
           WalkAll(b, b[at[2]][at[1]], piece_coord,
                   get_moves(b[at[2]][at[1]]), 1, attacking))

---------------------------------------------------------------------------
(* board.py: update_attacked_squares, update, next_turn *)

\* The number in grid order of the first cell that holds None; 65 if none does.
FirstNone(b) ==
    LET holes == {i \in 1..64 : b[Cells[i][2]][Cells[i][1]].type = "None"}
    IN  IF holes = {} THEN 65
        ELSE CHOOSE i \in holes : \A j \in holes : i <= j

\* The loop body with lines 919-922 skipped for a piece that has a pinner:
\* its pinned flag is not cleared.
ResetCellKeepPinner(e) ==
    IF IsPiece(e) /\ e.pinned /\ e.attacker = None
    THEN [e EXCEPT !.attacked = FALSE, !.pinned = FALSE]
    ELSE [e EXCEPT !.attacked = FALSE]

\* Lines 914-922: the loop body for one cell.
ResetCell(e) ==
    IF IsPiece(e) /\ e.pinned
    THEN [e EXCEPT !.attacked = FALSE, !.pinned = FALSE, !.attacker = None]
    ELSE [e EXCEPT !.attacked = FALSE]

\* Lines 914-922: the first loop.  set_attacked on a cell that holds None is
\* an AttributeError; the cells before it have been reset by then.
Cleared(b) ==
    [y \in 0..7 |-> [x \in 0..7 |->
        IF y * 8 + x + 1 < FirstNone(b) THEN ResetCell(b[y][x]) ELSE b[y][x]]]

\* Lines 924-927, att being the attacked squares of line 924.
MarkAttacked(att) ==
    [board |-> [y \in 0..7 |-> [x \in 0..7 |->
                   IF <<x, y>> \in att.moves
                   THEN [att.board[y][x] EXCEPT !.attacked = TRUE]
                   ELSE att.board[y][x]]],
     error |-> att.error]

\* Lines 914-927.
update_attacked_squares(b, st, pl) ==
    IF FirstNone(b) <= 64
    THEN [board |-> Cleared(b), error |-> "AttributeError"]
    ELSE MarkAttacked(get_attacked_squares(Cleared(b), FALSE, st, pl))

\* update() without its check branch: the state follows the moves alone.
NextStateNoCheck(st, player_moves) ==
    IF player_moves = {} THEN "stalemate" ELSE "ongoing"

\* Lines 937-947: the state update() leaves, from the state after the king test
\* and the walks, and the player's moves.
NextState(st, player_moves) ==
    IF st = "check"
    THEN IF player_moves # {} THEN "check" ELSE "checkmate"
    ELSE IF player_moves = {} THEN "stalemate" ELSE st

\* Lines 935-947, pm being the player's moves of line 935.
UpdateState(pm) ==
    IF pm.error # NoError
    THEN [board |-> pm.board, state |-> pm.state, error |-> pm.error]
    ELSE [board |-> pm.board, state |-> NextState(pm.state, pm.moves),
          error |-> NoError]

\* Lines 931-947, u being what update_attacked_squares left.
UpdateKing(st, pl, u) ==
    IF u.error # NoError
    THEN [board |-> u.board, state |-> st, error |-> u.error]
    ELSE IF KingCell(pl, u.board) = None
    THEN [board |-> u.board, state |-> st, error |-> "AttributeError"]
    ELSE UpdateState(
           get_player_moves(pl, u.board, FALSE, FALSE,
                            IF u.board[KingCell(pl, u.board)[2]]
                                      [KingCell(pl, u.board)[1]].attacked
                            THEN "check" ELSE st,
                            pl))

\* Lines 929-947.
update(b, st, pl) == UpdateKing(st, pl, update_attacked_squares(b, st, pl))

\* Line 951 and what update() left.
Turned(pl, r) ==
    [board |-> r.board, state |-> r.state, player |-> pl, error |-> r.error]

\* Lines 949-952.
next_turn(b, st, pl) == Turned(Other(pl), update(b, st, Other(pl)))

\* get_promotion_target that answers every known kind with a Queen.
get_promotion_queen(promotion_target, target_coord, pl) ==
    IF promotion_target \in {"queen", "rook", "bishop", "knight"}
    THEN Piece("Queen", target_coord, pl)
    ELSE NoneCell

\* Lines 954-972.
get_promotion_target(promotion_target, target_coord, pl) ==
    CASE promotion_target = "queen" -> Piece("Queen", target_coord, pl)
      [] promotion_target = "rook" -> Piece("Rook", target_coord, pl)
      [] promotion_target = "bishop" -> Piece("Bishop", target_coord, pl)
      [] promotion_target = "knight" -> Piece("Knight", target_coord, pl)
      [] OTHER -> NoneCell

---------------------------------------------------------------------------
(* board.py: move, inspect *)

\* Python's None where the other values are strings.
Null == "None"

NoEvent == [type |-> Null, extra |-> Null]

\* A raise: the call ends with the grid, state and player as they stand.
Raise(kind, b, st, pl) ==
    [board |-> b, state |-> st, player |-> pl, error |-> kind,
     event |-> NoEvent, moves |-> <<>>]

InBounds(coord) == accepts(0, 8, coord[1]) /\ accepts(0, 8, coord[2])

\* The castle taken for a plain move of the King: the Rook stays where it is.
CastleLoopKingOnly(b, others, source_coord, target_coord) ==
    [board |-> [b EXCEPT ![target_coord[2]][target_coord[1]] =
                    [b[source_coord[2]][source_coord[1]]
                        EXCEPT !.coord = target_coord],
                  ![source_coord[2]][source_coord[1]] = Empty(source_coord)],
     at |-> target_coord, event |-> NoEvent]

\* Lines 321-343: the castle whose piece_move is the target, if there is one.
\* Returns the grid and the cell that holds source_entity afterwards.
CastleLoop(b, others, source_coord, target_coord) ==
    LET hits == {i \in 1..Len(others) : others[i].piece_move = target_coord}
    IN  IF hits = {}
        THEN [board |-> b, at |-> source_coord, event |-> NoEvent]
        ELSE
          LET element == others[CHOOSE i \in hits : \A j \in hits : i <= j]
              at == element.companion
              companion == b[at[2]][at[1]]
              from == companion.coord
              to == element.companion_move
              source_entity == b[source_coord[2]][source_coord[1]]
              b1 == [b EXCEPT ![from[2]][from[1]] = Empty(from)]
              b2 == [b1 EXCEPT ![to[2]][to[1]] =
                                  [companion EXCEPT !.coord = to]]
              b3 == [b2 EXCEPT ![target_coord[2]][target_coord[1]] =
                                  [source_entity EXCEPT !.coord = target_coord]]
              b4 == [b3 EXCEPT ![source_coord[2]][source_coord[1]] =
                                  Empty(source_coord)]
          IN  [board |-> b4, at |-> target_coord,
               event |-> [type |-> "castle",
                          extra |-> IF target_coord[1] < 4 THEN "queenside"
                                    ELSE "kingside"]]

\* Lines 345-366: the branch taken when others is empty.
Relocate(b, source_coord, target_coord, promotion_target, pl) ==
    LET source_entity == b[source_coord[2]][source_coord[1]]
        target_x == target_coord[1]
        target_y == target_coord[2]
        placed ==
            IF source_entity.type = "Pawn" /\ (target_y = 0 \/ target_y = 7)
            THEN [board |-> [b EXCEPT ![target_y][target_x] =
                                get_promotion_target(promotion_target,
                                                     target_coord, pl)],
                  at |-> None,
                  event |-> [type |-> "promotion", extra |-> promotion_target]]
            ELSE [board |-> [b EXCEPT ![target_y][target_x] =
                                [source_entity EXCEPT !.coord = target_coord]],
                  at |-> target_coord,
                  event |-> IF IsPiece(b[target_y][target_x])
                            THEN [type |-> "captures", extra |-> Null]
                            ELSE NoEvent]
    IN  [placed EXCEPT !.board[source_coord[2]][source_coord[1]] =
                           Empty(source_coord)]

\* move() without lines 368-369: no piece is ever marked as moved.
DidMoveNever(b, type, at) == b

\* Lines 368-369: did_move() on source_entity, wherever the object now is.
DidMove(b, type, at) ==
    IF type \in {"Rook", "King"}
    THEN [b EXCEPT ![at[2]][at[1]].moved = TRUE]
    ELSE b

\* Lines 372-378: the result, n being what next_turn left.
Result(event, n) ==
    [board |-> n.board, state |-> n.state, player |-> n.player,
     error |-> n.error, event |-> event, moves |-> <<>>]

\* Lines 368-378, done being the grid after the branch taken.
Finish(type, st, pl, done) ==
    Result(done.event, next_turn(DidMove(done.board, type, done.at), st, pl))

\* Lines 312-378, r being what get_piece_moves gave for the source.
Execute(source_coord, target_coord, promotion_target, type, pl, r) ==
    IF r.error # NoError THEN Raise(r.error, r.board, r.state, pl)
    ELSE IF target_coord \notin SeqToSet(r.moves)
    THEN Raise("MoveNotLegalException", r.board, r.state, pl)
    ELSE Finish(type, r.state, pl,
                IF r.others # <<>>
                THEN CastleLoop(r.board, r.others, source_coord, target_coord)
                ELSE Relocate(r.board, source_coord, target_coord,
                              promotion_target, pl))

\* move() without the test of lines 308-310: a piece of either side is taken
\* to the legality test.
moveAnyOwner(source_coord, target_coord, promotion_target, b, st, pl) ==
    IF target_coord = source_coord THEN Raise("ValueError", b, st, pl)
    ELSE IF ~InBounds(source_coord) THEN Raise("ValueError", b, st, pl)
    ELSE IF ~InBounds(target_coord) THEN Raise("ValueError", b, st, pl)
    ELSE IF ~IsPiece(b[source_coord[2]][source_coord[1]])
    THEN Raise("NoPieceAtSpecifiedCoordinateException", b, st, pl)
    ELSE Execute(source_coord, target_coord, promotion_target,
                 b[source_coord[2]][source_coord[1]].type, pl,
                 get_piece_moves(source_coord, source_coord, TRUE, FALSE,
                                 b, st, pl))

\* Lines 218-378.
move(source_coord, target_coord, promotion_target, b, st, pl) ==
    IF target_coord = source_coord THEN Raise("ValueError", b, st, pl)
    ELSE IF ~InBounds(source_coord) THEN Raise("ValueError", b, st, pl)
    ELSE IF ~InBounds(target_coord) THEN Raise("ValueError", b, st, pl)
    ELSE IF ~IsPiece(b[source_coord[2]][source_coord[1]])
    THEN Raise("NoPieceAtSpecifiedCoordinateException", b, st, pl)
    ELSE IF b[source_coord[2]][source_coord[1]].player # pl
    THEN Raise("NotInPlayersPossesionException", b, st, pl)
    ELSE Execute(source_coord, target_coord, promotion_target,
                 b[source_coord[2]][source_coord[1]].type, pl,
                 get_piece_moves(source_coord, source_coord, TRUE, FALSE,
                                 b, st, pl))

\* Lines 443-449, r being what get_piece_moves gave.
Inspected(pl, r) ==
    [board |-> r.board, state |-> r.state, player |-> pl,
     error |-> r.error, event |-> NoEvent, moves |-> r.moves]

\* Lines 380-452.
inspect(coord, b, st, pl) ==
    IF ~InBounds(coord) THEN Raise("ValueError", b, st, pl)
    ELSE IF ~IsPiece(b[coord[2]][coord[1]])
    THEN Raise("NoPieceAtSpecifiedCoordinateException", b, st, pl)
    ELSE IF b[coord[2]][coord[1]].player # pl
    THEN Raise("NotInPlayersPossesionException", b, st, pl)
    ELSE Inspected(pl, get_piece_moves(coord, coord, FALSE, FALSE, b, st, pl))

---------------------------------------------------------------------------
(* board.py: __init__, init, from_json *)

\* entity.py, Piece.to_dict: the JSON of one piece.  board.py never calls
\* set_options, so the options are the ones of Piece.__init__.
to_dict(e) ==
    [type |-> e.type, player |-> e.player, coord |-> e.coord,
     options |-> [moves |-> <<>>, others |-> <<>>],
     pinned |-> e.pinned, attacker |-> e.attacker]

\* Line 996: to_json() of every piece of the list, cells being their cells.
PiecesToJson(b, cells) ==
    [i \in 1..Len(cells) |-> to_dict(b[cells[i][2]][cells[i][1]])]

\* Lines 993-1003: the white pieces, then the black, each in grid order.
to_json(b, st, pl) ==
    [state |-> st, player |-> pl,
     pieces |-> PiecesToJson(b, get_player_pieces("white", b)
                                \o get_player_pieces("black", b))]

\* Lines 1012-1031: the pieces of the list put on an empty grid, a later
\* piece replacing an earlier one on the same coordinate.
RECURSIVE Place(_, _, _)
Place(b, pieces, i) ==
    IF i > Len(pieces) THEN b
    ELSE LET json_piece == pieces[i]
             x == json_piece.coord[1]
             y == json_piece.coord[2]
         IN  Place([b EXCEPT ![y][x] =
                        [Piece(json_piece.type, <<x, y>>, json_piece.player)
                            EXCEPT !.pinned = json_piece.pinned,
                                   !.attacker = json_piece.attacker]],
                   pieces, i + 1)

\* Lines 1005-1033.
from_json(json) ==
    Turned(json.player,
           update(Place(empty_board, json.pieces, 1), json.state, json.player))

\* Lines 112-130: Board() without JSON.
Board == Turned("white", update(initial_board, "ongoing", "white"))

---------------------------------------------------------------------------
(* The state machine: one Board object and the calls made on it.           *)
(* board, state and player are the object's attributes; ret is what the    *)
(* last call gave its caller; calls counts the calls made.                  *)

\* The errors move() and inspect() document; any other error is a fault that
\* no caller is told to expect, and the run ends with it.
Documented == {"ValueError", "NoPieceAtSpecifiedCoordinateException",
               "NotInPlayersPossesionException", "MoveNotLegalException"}

Live == ret.error \in Documented \cup {NoError}

\* What the caller of a call sees.  A rejected call is recorded by its error
\* alone, a fault and a result with the coordinates of the call.
Returned(op, r, source_coord, target_coord) ==
    IF r.error \in Documented
    THEN [op |-> op, error |-> r.error, source |-> None, target |-> None,
          event |-> NoEvent, moves |-> <<>>]
    ELSE [op |-> op, error |-> r.error, source |-> source_coord,
          target |-> target_coord,
          event |-> IF r.error = NoError THEN r.event ELSE NoEvent,
          moves |-> r.moves]

\* No call of Boundary.accepts was made yet.
NoAnswer ==
    [op |-> "init", value |-> TupleValue(<<>>), error |-> NoError,
     result |-> FALSE]

Constructed(c) ==
    /\ c.error = NoError
    /\ board = c.board
    /\ state = c.state
    /\ player = c.player
    /\ ret = [op |-> "init", error |-> NoError, source |-> None,
              target |-> None, event |-> NoEvent, moves |-> <<>>]
    /\ calls = 0
    /\ boundary = Boundary(0, 8)
    /\ answer = NoAnswer

\* A call that gave r: the object as the call left it.
Call(op, r, source_coord, target_coord) ==
    /\ Live
    /\ board' = r.board
    /\ state' = r.state
    /\ player' = r.player
    /\ ret' = Returned(op, r, source_coord, target_coord)
    /\ calls' = calls + 1
    /\ UNCHANGED <<boundary, answer>>

\* board.move(source_coord, target_coord, promotion_target)
Move(source_coord, target_coord, promotion_target) ==
    Call("move",
         move(source_coord, target_coord, promotion_target,
              board, state, player),
         source_coord, target_coord)

\* board.inspect(coord)
Inspect(coord) ==
    Call("inspect", inspect(coord, board, state, player), coord, None)

(* The bounds of the model and the inputs of the calls *)

\* The number of calls made on one Board.
MaxCalls == 2

Squares == {<<x, y>> : x \in 0..7, y \in 0..7}

\* Coordinates off the grid, one past each edge.
Outside == {<<-1, 0>>, <<8, 7>>, <<3, -1>>, <<4, 8>>}

Coords == Squares \cup Outside

\* The promotion targets tried: none, the four the source knows, and the
\* spelling of src/test/cases/cases_board_move.py.
PromotionTargets == {Null, "queen", "rook", "bishop", "knight", "Knight"}

\* move() reads promotion_target in the promotion branch only (lines 346-356).
Promotions(source_coord, target_coord) ==
    IF /\ InBounds(source_coord)
       /\ board[source_coord[2]][source_coord[1]].type = "Pawn"
       /\ target_coord[2] \in {0, 7}
    THEN PromotionTargets ELSE {Null}

P(type, who, x, y) ==
    [type |-> type, player |-> who, coord |-> <<x, y>>,
     pinned |-> FALSE, attacker |-> None]

\* The boards the games start from: the small boards of
\* src/test/cases/cases_board_to_dict.py and a back-rank position.
Positions ==
    { [state |-> "ongoing", player |-> "black",
       pieces |-> <<P("Rook", "white", 0, 1), P("Rook", "white", 1, 1),
                    P("King", "white", 7, 7), P("King", "black", 7, 0)>>],
      [state |-> "ongoing", player |-> "white",
       pieces |-> <<P("Queen", "white", 3, 6), P("King", "white", 4, 7),
                    P("King", "black", 4, 0)>>],
      [state |-> "ongoing", player |-> "white",
       pieces |-> <<P("Queen", "white", 0, 1), P("King", "white", 6, 2),
                    P("King", "black", 7, 0)>>],
      [state |-> "ongoing", player |-> "white",
       pieces |-> <<P("Pawn", "white", 0, 1), P("King", "white", 6, 2),
                    P("King", "black", 7, 0)>>],
      [state |-> "ongoing", player |-> "white",
       pieces |-> <<P("Rook", "white", 7, 7), P("King", "white", 4, 7),
                    P("King", "black", 5, 0)>>],
      [state |-> "ongoing", player |-> "black",
       pieces |-> <<P("Rook", "black", 3, 0), P("King", "black", 0, 0),
                    P("King", "white", 7, 7), P("Pawn", "white", 6, 6),
                    P("Pawn", "white", 7, 6), P("Rook", "white", 4, 3)>>] }

Init == \E json \in Positions : Constructed(from_json(json))

Next ==
    /\ calls < MaxCalls
    /\ \/ \E source_coord \in Coords, target_coord \in Coords :
            \E promotion_target \in Promotions(source_coord, target_coord) :
               Move(source_coord, target_coord, promotion_target)
       \/ \E coord \in Coords : Inspect(coord)

Spec == Init /\ [][Next]_vars

---------------------------------------------------------------------------
(* Games from the initial position.  The i-th call on Board() is one of    *)
(* GameCalls[i], the moves of these games in the source's coordinates      *)
(* (a8 is (0, 0), h1 is (7, 7)):                                            *)
(*   e4 e5 Qf3 Nc6 Bc4 d6 Qxf7     (case_napoleon_attack)                   *)
(*   e4 e5 Ke2 Qg5 Ke3 Qxe3                                                 *)
(*   e4 e5 Qh5 Ke7 a3                                                       *)
(*   e4 e5 Nf3 Nc6 Bc4 Bc5 O-O, or Kf1 in place of O-O                      *)
(*   e4 Nf6 Nf3 Ng4 Bc4 Nxf2 Kxf2                                           *)
(* and a2-a5, the illegal move of the specification's example.              *)

M(sx, sy, tx, ty) == [source |-> <<sx, sy>>, target |-> <<tx, ty>>]

GameCalls ==
    << {M(4, 6, 4, 4), M(0, 6, 0, 3)},
       {M(4, 1, 4, 3), M(6, 0, 5, 2)},
       {M(3, 7, 5, 5), M(4, 7, 4, 6), M(3, 7, 7, 3), M(6, 7, 5, 5)},
       {M(1, 0, 2, 2), M(3, 0, 6, 3), M(4, 0, 4, 1), M(5, 2, 6, 4)},
       {M(5, 7, 2, 4), M(4, 6, 4, 5), M(0, 6, 0, 5)},
       {M(3, 1, 3, 2), M(6, 3, 4, 5), M(5, 0, 2, 3), M(6, 4, 5, 6)},
       {M(5, 5, 5, 1), M(4, 7, 6, 7), M(4, 7, 5, 7), M(4, 7, 5, 6)} >>

\* The squares inspected between the moves: e1, e8, e4 and a1.
GameInspects == {<<4, 7>>, <<4, 0>>, <<4, 4>>, <<0, 7>>}

InitGame == Constructed(Board)

NextGame ==
    /\ calls < Len(GameCalls)
    /\ \/ \E call \in GameCalls[calls + 1] :
            Move(call.source, call.target, Null)
       \/ \E coord \in GameInspects : Inspect(coord)

SpecGame == InitGame /\ [][NextGame]_vars

---------------------------------------------------------------------------
(* Castling.  Boards loaded from JSON on which Kings and Rooks stand on     *)
(* their first ranks, and the calls that move them out, back and across:    *)
(* both Kings and all four Rooks at home; the same with a black Bishop on   *)
(* c4 that attacks f1; and a white King on c1 with its Rook on h1 and a     *)
(* Bishop of its own on d1.                                                 *)

CastlePositions ==
    { [state |-> "ongoing", player |-> "white",
       pieces |-> <<P("King", "white", 4, 7), P("Rook", "white", 0, 7),
                    P("Rook", "white", 7, 7), P("King", "black", 4, 0),
                    P("Rook", "black", 0, 0), P("Rook", "black", 7, 0)>>],
      [state |-> "ongoing", player |-> "white",
       pieces |-> <<P("King", "white", 4, 7), P("Rook", "white", 0, 7),
                    P("Rook", "white", 7, 7), P("King", "black", 4, 0),
                    P("Bishop", "black", 2, 4)>>],
      [state |-> "ongoing", player |-> "white",
       pieces |-> <<P("King", "white", 2, 7), P("Bishop", "white", 3, 7),
                    P("Rook", "white", 7, 7), P("King", "black", 4, 0)>>] }

\* The calls: O-O and O-O-O of either side, a King's step out and back, a
\* Rook's step out and back, the Bishop's retreat, and the King from c1 to e1.
CastleCalls ==
    { M(4, 7, 6, 7), M(4, 7, 2, 7), M(4, 0, 6, 0), M(4, 0, 2, 0),
      M(4, 7, 4, 6), M(4, 6, 4, 7), M(4, 0, 4, 1), M(4, 1, 4, 0),
      M(7, 7, 7, 6), M(7, 6, 7, 7), M(0, 0, 0, 1), M(0, 1, 0, 0),
      M(2, 4, 1, 3), M(2, 7, 4, 7) }

\* The squares inspected between the moves: e1, e8, c1 and h1.
CastleInspects == {<<4, 7>>, <<4, 0>>, <<2, 7>>, <<7, 7>>}

\* The number of calls made on one of the castling boards.
MaxCastleCalls == 5

InitCastle == \E json \in CastlePositions : Constructed(from_json(json))

NextCastle ==
    /\ calls < MaxCastleCalls
    /\ \/ \E call \in CastleCalls : Move(call.source, call.target, Null)
       \/ \E coord \in CastleInspects : Inspect(coord)

SpecCastle == InitCastle /\ [][NextCastle]_vars

---------------------------------------------------------------------------
(* Promotion.  Boards loaded from JSON with a Pawn one step from the last   *)
(* rank: a white Pawn on a7 that can step to a8 or take the Rook on b8, and *)
(* a black Pawn on d2 that can step to d1 or take the Knight on e1.         *)

PromotionPositions ==
    { [state |-> "ongoing", player |-> "white",
       pieces |-> <<P("Pawn", "white", 0, 1), P("Rook", "black", 1, 0),
                    P("King", "white", 6, 7), P("King", "black", 7, 3)>>],
      [state |-> "ongoing", player |-> "black",
       pieces |-> <<P("Pawn", "black", 3, 6), P("Knight", "white", 4, 7),
                    P("King", "white", 7, 5), P("King", "black", 0, 0)>>] }

\* The targets of the calls: the two last ranks and the ranks next to them.
PromotionRanks == {c \in Squares : c[2] \in {0, 1, 6, 7}}

\* The number of calls made on one of the promotion boards.
MaxPromotionCalls == 2

InitPromotion == \E json \in PromotionPositions : Constructed(from_json(json))

NextPromotion ==
    /\ calls < MaxPromotionCalls
    /\ \/ \E source_coord \in Squares, target_coord \in PromotionRanks :
            \E promotion_target \in Promotions(source_coord, target_coord) :
               Move(source_coord, target_coord, promotion_target)
       \/ \E coord \in Squares : Inspect(coord)

SpecPromotion == InitPromotion /\ [][NextPromotion]_vars

---------------------------------------------------------------------------
(* Pins.  Boards loaded from JSON on which a piece of the side to move      *)
(* stands alone between its King and an enemy Bishop, Rook or Queen: the    *)
(* Knight and the Rook of src/test/test_board.py on the e-file, pins along  *)
(* a rank and along both diagonals with the pinner on either side, and a    *)
(* Knight pinned on the h-file beside a King that has no square to go to.   *)
(* The last board has two pieces, not one, between the King and the Queen.  *)

PinPositions ==
    { [state |-> "ongoing", player |-> "white",
       pieces |-> <<P("Knight", "white", 4, 6), P("King", "white", 4, 7),
                    P("Queen", "black", 4, 1), P("King", "black", 4, 0)>>],
      [state |-> "ongoing", player |-> "white",
       pieces |-> <<P("Rook", "white", 4, 6), P("King", "white", 4, 7),
                    P("Queen", "black", 4, 1), P("King", "black", 4, 0)>>],
      [state |-> "ongoing", player |-> "black",
       pieces |-> <<P("King", "black", 4, 0), P("Rook", "black", 4, 2),
                    P("Rook", "white", 4, 6), P("Bishop", "black", 3, 1),
                    P("Queen", "white", 1, 3), P("King", "white", 7, 7)>>],
      [state |-> "ongoing", player |-> "white",
       pieces |-> <<P("King", "white", 2, 4), P("Rook", "white", 4, 4),
                    P("Rook", "black", 7, 4), P("Queen", "white", 1, 3),
                    P("Bishop", "black", 0, 2), P("King", "black", 7, 0)>>],
      [state |-> "ongoing", player |-> "white",
       pieces |-> <<P("King", "white", 4, 2), P("Rook", "white", 2, 2),
                    P("Queen", "black", 0, 2), P("Bishop", "white", 5, 3),
                    P("Bishop", "black", 7, 5), P("King", "black", 0, 0)>>],
      [state |-> "ongoing", player |-> "white",
       pieces |-> <<P("King", "white", 2, 6), P("Pawn", "white", 3, 5),
                    P("Bishop", "black", 4, 4), P("King", "black", 7, 0)>>],
      [state |-> "ongoing", player |-> "white",
       pieces |-> <<P("King", "white", 7, 7), P("Knight", "white", 7, 6),
                    P("Rook", "black", 7, 0), P("Queen", "black", 5, 6),
                    P("King", "black", 0, 0)>>],
      [state |-> "ongoing", player |-> "white",
       pieces |-> <<P("King", "white", 4, 7), P("Knight", "white", 4, 6),
                    P("Pawn", "white", 4, 5), P("Queen", "black", 4, 1),
                    P("King", "black", 0, 0)>>] }

\* The number of calls made on one of the pin boards.
MaxPinCalls == 2

InitPin == \E json \in PinPositions : Constructed(from_json(json))

NextPin ==
    /\ calls < MaxPinCalls
    /\ \/ \E source_coord \in Squares, target_coord \in Squares :
            Move(source_coord, target_coord, Null)
       \/ \E coord \in Squares : Inspect(coord)

SpecPin == InitPin /\ [][NextPin]_vars

---------------------------------------------------------------------------
(* Pawns.  Boards loaded from JSON: the Pawn on a2 of                       *)
(* src/test/test_board.py, free and with its own King on a3; a white Pawn   *)
(* on d2 with a black Bishop on d3 and black Pawns on c3 and e4; and a      *)
(* black Pawn on f7 with a white Bishop on f6 and a white Pawn on g6.       *)

PawnPositions ==
    { [state |-> "ongoing", player |-> "white",
       pieces |-> <<P("Pawn", "white", 0, 6), P("King", "white", 4, 7),
                    P("King", "black", 4, 0)>>],
      [state |-> "ongoing", player |-> "white",
       pieces |-> <<P("Pawn", "white", 0, 6), P("King", "white", 0, 5),
                    P("King", "black", 4, 0)>>],
      [state |-> "ongoing", player |-> "white",
       pieces |-> <<P("Pawn", "white", 3, 6), P("Bishop", "black", 3, 5),
                    P("Pawn", "black", 2, 5), P("Pawn", "black", 4, 4),
                    P("King", "white", 4, 7), P("King", "black", 4, 0)>>],
      [state |-> "ongoing", player |-> "black",
       pieces |-> <<P("Pawn", "black", 5, 1), P("Bishop", "white", 5, 2),
                    P("Pawn", "white", 6, 2), P("King", "white", 4, 7),
                    P("King", "black", 4, 0)>>] }

\* The number of calls made on one of the pawn boards.
MaxPawnCalls == 2

InitPawn == \E json \in PawnPositions : Constructed(from_json(json))

NextPawn ==
    /\ calls < MaxPawnCalls
    /\ \/ \E source_coord \in Squares, target_coord \in Squares :
            Move(source_coord, target_coord, Null)
       \/ \E coord \in Squares : Inspect(coord)

SpecPawn == InitPawn /\ [][NextPawn]_vars

---------------------------------------------------------------------------
(* Checks.  Boards loaded from JSON on which the side to move is in check   *)
(* and has a piece besides its King: the Rook of src/test/test_board.py     *)
(* that can take the checking Knight; a white Rook that can step between    *)
(* its King and a checking Rook; and a black Knight and Bishop that can     *)
(* step between their King and a checking Queen or take her.  With them the *)
(* board of the same test on which a black Rook on f8 attacks f1 and f2     *)
(* beside a white King that is not in check.                                *)

CheckPositions ==
    { [state |-> "check", player |-> "white",
       pieces |-> <<P("Rook", "white", 4, 6), P("King", "white", 4, 7),
                    P("Knight", "black", 6, 6), P("King", "black", 4, 0)>>],
      [state |-> "ongoing", player |-> "white",
       pieces |-> <<P("King", "white", 4, 7), P("Rook", "white", 0, 5),
                    P("Rook", "black", 4, 1), P("King", "black", 0, 0)>>],
      [state |-> "ongoing", player |-> "black",
       pieces |-> <<P("King", "black", 4, 0), P("Knight", "black", 2, 2),
                    P("Bishop", "black", 6, 2), P("Queen", "white", 4, 4),
                    P("King", "white", 7, 7)>>],
      [state |-> "ongoing", player |-> "white",
       pieces |-> <<P("Rook", "white", 7, 7), P("King", "white", 4, 7),
                    P("Rook", "black", 5, 0), P("King", "black", 4, 0)>>] }

\* The number of calls made on one of the check boards.
MaxCheckCalls == 2

InitCheck == \E json \in CheckPositions : Constructed(from_json(json))

NextCheck ==
    /\ calls < MaxCheckCalls
    /\ \/ \E source_coord \in Squares, target_coord \in Squares :
            Move(source_coord, target_coord, Null)
       \/ \E coord \in Squares : Inspect(coord)

SpecCheck == InitCheck /\ [][NextCheck]_vars

----------------------------------------------------------------------------
(* Boundary objects on their own: boundary is a Boundary built with any two *)
(* ends, and accepts is called on it with an integer, a pair or a longer    *)
(* tuple, as test_boundary does with the ends 0 and 10.                     *)

\* The largest end of a Boundary; the values lie one beyond the ends.
MaxEnd == 3

Ends == 0..MaxEnd

Numbers == -1..(MaxEnd + 1)

\* test_utils.py lines 38-50: single integers and lists of two integers;
\* the empty tuple and a triple besides.
Values ==
    {IntValue(v) : v \in Numbers}
       \cup {TupleValue(<<v, w>>) : v \in Numbers, w \in Numbers}
       \cup {TupleValue(<<>>), TupleValue(<<0, MaxEnd, 0>>)}

\* boundary.accepts(value)
Accepts(value) ==
    /\ answer' = [op |-> "accepts", value |-> value,
                  error |-> Boundary_accepts(boundary, value).error,
                  result |-> Boundary_accepts(boundary, value).result]
    /\ UNCHANGED <<boundary, board, state, player, ret, calls>>

\* No Board is built: the grid is the empty one and no call is made on it.
InitBoundary ==
    /\ \E min \in Ends, max \in Ends : boundary = Boundary(min, max)
    /\ answer = NoAnswer
    /\ board = empty_board
    /\ state = "ongoing"
    /\ player = "white"
    /\ ret = [op |-> "init", error |-> NoError, source |-> None,
              target |-> None, event |-> NoEvent, moves |-> <<>>]
    /\ calls = 0

NextBoundary == \E value \in Values : Accepts(value)

SpecBoundary == InitBoundary /\ [][NextBoundary]_vars

---------------------------------------------------------------------------
(* Standard chess rules, by which the claims below judge a position: a     *)
(* slider's line ends at the first occupied square, a pawn captures        *)
(* diagonally forward, and a move is legal when it leaves the mover's king *)
(* unattacked.  En passant is left out (the grid holds no move history).   *)

RECURSIVE StdRay(_, _, _, _, _)
StdRay(b, x, y, dx, dy) ==
    IF ~InBounds(<<x + dx, y + dy>>) THEN {}
    ELSE IF IsPiece(b[y + dy][x + dx]) THEN {<<x + dx, y + dy>>}
    ELSE {<<x + dx, y + dy>>} \cup StdRay(b, x + dx, y + dy, dx, dy)

StdSteps(c, template) ==
    {t \in {<<c[1] + v[1], c[2] + v[2]>> : v \in SeqToSet(template)} :
        InBounds(t)}

\* The squares the piece on c attacks.
StdCover(b, c) ==
    LET piece == b[c[2]][c[1]]
        Rays(template) ==
            UNION {StdRay(b, c[1], c[2], v[1], v[2]) : v \in SeqToSet(template)}
        forward == IF piece.player = "white" THEN -1 ELSE 1
    IN  CASE piece.type = "Pawn" ->
               {t \in {<<c[1] - 1, c[2] + forward>>, <<c[1] + 1, c[2] + forward>>} :
                   InBounds(t)}
          [] piece.type = "Knight" -> StdSteps(c, KnightMoves)
          [] piece.type = "King" -> StdSteps(c, KingMoves)
          [] piece.type = "Bishop" -> Rays(BishopMoves)
          [] piece.type = "Rook" -> Rays(RookMoves)
          [] piece.type = "Queen" -> Rays(QueenMoves)

Owns(b, c, who) == IsPiece(b[c[2]][c[1]]) /\ b[c[2]][c[1]].player = who

\* Some piece of `by` attacks the square sq.
StdAttacked(b, sq, by) ==
    \E c \in Squares : Owns(b, c, by) /\ sq \in StdCover(b, c)

\* The squares the piece on c can move to, its king's safety aside.
StdTargets(b, c) ==
    LET piece == b[c[2]][c[1]]
        forward == IF piece.player = "white" THEN -1 ELSE 1
        home == IF piece.player = "white" THEN 6 ELSE 1
        one == <<c[1], c[2] + forward>>
        two == <<c[1], c[2] + 2 * forward>>
        Free(t) == InBounds(t) /\ ~IsPiece(b[t[2]][t[1]])
    IN  IF piece.type = "Pawn"
        THEN {t \in StdCover(b, c) : Owns(b, t, Other(piece.player))}
             \cup (IF Free(one) THEN {one} ELSE {})
             \cup (IF c[2] = home /\ Free(one) /\ Free(two) THEN {two} ELSE {})
        ELSE {t \in StdCover(b, c) : ~Owns(b, t, piece.player)}

\* The grid after the piece on c has moved to t.
StdMoved(b, c, t) ==
    [b EXCEPT ![t[2]][t[1]] = [b[c[2]][c[1]] EXCEPT !.coord = t],
              ![c[2]][c[1]] = Empty(c)]

\* The king of `who` stands and no piece of the other side attacks it.
StdKingSafe(b, who) ==
    /\ KingCell(who, b) # None
    /\ ~StdAttacked(b, KingCell(who, b), Other(who))

\* The king of `who` stands attacked.
StdInCheck(b, who) ==
    /\ KingCell(who, b) # None
    /\ StdAttacked(b, KingCell(who, b), Other(who))

\* `who` has a move that leaves its king unattacked.
StdHasLegalMove(b, who) ==
    \E c \in Squares :
        /\ Owns(b, c, who)
        /\ \E t \in StdTargets(b, c) : StdKingSafe(StdMoved(b, c, t), who)

\* The last call was a move() that returned a result.
Succeeded == ret.op = "move" /\ ret.error = NoError

\* The last call was a move() rejected with one of its documented errors.
Rejected == ret.op = "move" /\ ret.error \in Documented

---------------------------------------------------------------------------
(* The claims *)

\* C1: in every position reached from the initial position by successful
\* moves, an accepted move leaves the mover's own king not capturable by any
\* opposing piece, capture judged by the standard rules.
C1_MoveSoundness == Succeeded => StdKingSafe(board, Other(player))

\* The occupant of a cell: what stands there, flags and coordinate aside.
Occupant(e) == IF IsPiece(e) THEN <<e.type, e.player>> ELSE <<e.type>>

\* C2: when move(source, target) returns a result for a move that is neither
\* a castle nor a promotion, the piece that stood on source stands on target,
\* source is Empty, and every other square holds what it held before; also
\* for a King that has a castling option and steps one square.
C2_Relocates ==
    [][(Succeeded' /\ ret'.event.type \notin {"castle", "promotion"})
       => /\ Occupant(board'[ret'.target[2]][ret'.target[1]])
               = Occupant(board[ret'.source[2]][ret'.source[1]])
          /\ IsEmpty(board'[ret'.source[2]][ret'.source[1]])
          /\ \A c \in Squares \ {ret'.source, ret'.target} :
                Occupant(board'[c[2]][c[1]]) = Occupant(board[c[2]][c[1]])]_vars

\* C3: a move() call rejected with an error leaves the position as it was:
\* the grid with its occupants, moved flags and pinned/attacked flags, the
\* side to move and the game state.
C3_RejectedUnchanged ==
    [][Rejected' => /\ board' = board
                    /\ player' = player
                    /\ state' = state]_vars

\* The attacked set of the opponent of `who`, as the engine computes it.
AttackedSet(b, st, who) == get_attacked_squares(b, FALSE, st, who).moves

\* The king of `who` stands on a square of that attacked set.
KingAttacked(b, st, who) ==
    /\ KingCell(who, b) # None
    /\ KingCell(who, b) \in AttackedSet(b, st, who)

C5_CheckNotSticky ==
    [][Succeeded'
       => /\ (/\ state = "check"
              /\ ~StdInCheck(board', player')
              /\ StdHasLegalMove(board', player')) => state' = "ongoing"
          /\ state' = "check" => StdInCheck(board', player')]_vars

\* C6: after a successful move(), the state is checkmate if and only if the
\* king of the new side to move is attacked and that side has no move that
\* ends the attack: no king step to an unattacked square, no capture of the
\* checking piece, no interposition.
C6_CheckmateIff ==
    Succeeded
        => (state = "checkmate"
              <=> StdInCheck(board, player) /\ ~StdHasLegalMove(board, player))

\* C7: after a successful move(), the state is stalemate exactly when the king
\* of the new side to move is not attacked and that side has no legal move.
C7_StalemateIff ==
    Succeeded
        => (state = "stalemate"
              <=> ~StdInCheck(board, player) /\ ~StdHasLegalMove(board, player))

\* The squares that hold a piece of one of the kinds.
Holding(b, kinds) == {c \in Squares : b[c[2]][c[1]].type \in kinds}

\* Insufficient material: no pawn, rook or queen on the grid, and beside the
\* kings nothing, or one knight, or bishops of one side that all stand on
\* squares of one colour.
Insufficient(b) ==
    LET knights == Holding(b, {"Knight"})
        bishops == Holding(b, {"Bishop"})
    IN  /\ Holding(b, {"Pawn", "Rook", "Queen"}) = {}
        /\ \/ knights = {} /\ bishops = {}
           \/ Cardinality(knights) = 1 /\ bishops = {}
           \/ /\ knights = {}
              /\ \A c, d \in bishops :
                    /\ b[c[2]][c[1]].player = b[d[2]][d[1]].player
                    /\ (c[1] + c[2]) % 2 = (d[1] + d[2]) % 2

\* C8: after a successful move() that leaves insufficient material on the
\* board, the game state is draw.
C8_InsufficientDraw == (Succeeded /\ Insufficient(board)) => state = "draw"

\* C9: sides strictly alternate.  A successful move() flips the side to move
\* once and moves a piece of the side that was to move; a move() that ends in
\* an error and an inspect() leave the side to move as it was.
C9_SidesAlternate ==
    [][/\ Succeeded' => /\ player' = Other(player)
                        /\ Owns(board, ret'.source, player)
       /\ (ret'.op = "move" /\ ret'.error # NoError) => player' = player
       /\ ret'.op = "inspect" => player' = player]_vars

\* The first of move()'s tests that the call (source_coord, target_coord)
\* fails on the position (b, st, pl), in the order of the contract: the
\* coordinates, the source square, its owner, the target.
FirstFailure(source_coord, target_coord, b, st, pl) ==
    IF ~InBounds(source_coord) \/ ~InBounds(target_coord)
       \/ source_coord = target_coord
    THEN "ValueError"
    ELSE IF ~IsPiece(b[source_coord[2]][source_coord[1]])
    THEN "NoPieceAtSpecifiedCoordinateException"
    ELSE IF b[source_coord[2]][source_coord[1]].player # pl
    THEN "NotInPlayersPossesionException"
    ELSE IF target_coord \notin
            SeqToSet(get_piece_moves(source_coord, source_coord, TRUE, FALSE,
                                     b, st, pl).moves)
    THEN "MoveNotLegalException"
    ELSE NoError

\* The error e of a call agrees with the first test the call fails.
Reports(e, failure) ==
    IF failure = NoError THEN e \notin Documented ELSE e = failure

Castled(others, source_coord, target_coord) ==
    \A i \in 1..Len(others) :
       others[i].piece_move = target_coord =>
          LET rook == others[i].companion
              step == normalize(rook[1] - source_coord[1])
              crossed == <<source_coord[1] + step, source_coord[2]>>
          IN  /\ target_coord = <<source_coord[1] + 2 * step, source_coord[2]>>
              /\ Occupant(board'[target_coord[2]][target_coord[1]])
                    = <<"King", player>>
              /\ Occupant(board'[crossed[2]][crossed[1]]) = <<"Rook", player>>
              /\ IsEmpty(board'[source_coord[2]][source_coord[1]])
              /\ IsEmpty(board'[rook[2]][rook[1]])
              /\ \A c \in Squares \ {source_coord, target_coord, rook, crossed} :
                    Occupant(board'[c[2]][c[1]]) = Occupant(board[c[2]][c[1]])
              /\ ret'.event = [type |-> "castle",
                               extra |-> IF target_coord[1] < 4
                                         THEN "queenside" ELSE "kingside"]

\* C11: castling execution.  When the target of a successful move() of a King
\* is the king destination of one of the castle options the engine gives that
\* King, the one call moves the King two files toward the Rook and the Rook
\* onto the square the King crossed, leaves both origin squares Empty, changes
\* no other square, and returns the event castle with extra queenside for a
\* target file below 4 and kingside otherwise.
C11_CastleExecuted ==
    [][(Succeeded' /\ Owns(board, ret'.source, player))
         => Castled(get_piece_moves(ret'.source, ret'.source, TRUE, FALSE,
                                    board, state, player).others,
                    ret'.source, ret'.target)]_vars

\* A queenside castle has been executed.
C11_Witness ==
    Succeeded /\ ret.event = [type |-> "castle", extra |-> "queenside"]

\* The files strictly between two files.
Between(a, b) == {x \in 0..7 : Min(a, b) < x /\ x < Max(a, b)}

\* Every castle option of others, given to the King on king_at, goes two
\* files toward its Rook over squares that are Empty and not flagged attacked,
\* all the way between King and Rook, and the King does not stand attacked.
Eligible(others, king_at) ==
    \A i \in 1..Len(others) :
       LET rook == others[i].companion
       IN  /\ ~StdInCheck(board, player)
           /\ state # "check"
           /\ \A x \in Between(king_at[1], rook[1]) :
                 /\ IsEmpty(board[king_at[2]][x])
                 /\ ~board[king_at[2]][x].attacked

\* C12: castling eligibility.  In every position the castle options the
\* engine gives the King of the side to move, on whatever square it stands,
\* are given only when that side is not in check and every square strictly
\* between the King and the Rook is Empty and not attacked.
C12_CastleEligible ==
    (Live /\ KingCell(player, board) # None)
      => Eligible(get_piece_moves(KingCell(player, board),
                                  KingCell(player, board), TRUE, FALSE,
                                  board, state, player).others,
                  KingCell(player, board))

\* The King of `who` on the grid b carries the mark of did_move().
KingMoved(b, who) ==
    KingCell(who, b) # None /\ b[KingCell(who, b)[2]][KingCell(who, b)[1]].moved

\* A marked Rook on c keeps its mark through the step: it stays on c, or it
\* is the piece moved and stands marked on the target, or it is captured.
RookKept(c) ==
    (board[c[2]][c[1]].type = "Rook" /\ board[c[2]][c[1]].moved) =>
       \/ /\ Owns(board', c, board[c[2]][c[1]].player)
          /\ board'[c[2]][c[1]].type = "Rook"
          /\ board'[c[2]][c[1]].moved
       \/ /\ Succeeded'
          /\ ret'.source = c
          /\ Owns(board', ret'.target, board[c[2]][c[1]].player)
          /\ board'[ret'.target[2]][ret'.target[1]].type = "Rook"
          /\ board'[ret'.target[2]][ret'.target[1]].moved
       \/ /\ ret'.op = "move"
          /\ ret'.target = c
          /\ ~Owns(board', c, board[c[2]][c[1]].player)

\* No castle option of others goes to a marked King or takes a marked Rook.
NoLostOption(others, b, king_at) ==
    /\ b[king_at[2]][king_at[1]].moved => others = <<>>
    /\ \A i \in 1..Len(others) :
          ~b[others[i].companion[2]][others[i].companion[1]].moved

\* C13: castling rights are lost for good.  A successful move() of a King or
\* a Rook leaves the piece marked as moved; the mark of a King or a Rook
\* stays on it through every later call, wherever the piece goes, its
\* original square included; and in the position after every call the King
\* of the side to move is given no castle option once it is marked, and no
\* castle option with a marked Rook.
C13_RightsLost ==
    [][/\ (Succeeded' /\ Owns(board, ret'.source, player)
             /\ board[ret'.source[2]][ret'.source[1]].type = "King")
            => KingMoved(board', player)
       /\ (Succeeded' /\ Owns(board, ret'.source, player)
             /\ board[ret'.source[2]][ret'.source[1]].type = "Rook")
            => /\ board'[ret'.target[2]][ret'.target[1]].type = "Rook"
               /\ board'[ret'.target[2]][ret'.target[1]].moved
       /\ \A who \in {"white", "black"} :
             (KingMoved(board, who) /\ KingCell(who, board') # None)
                => KingMoved(board', who)
       /\ \A c \in Squares : RookKept(c)
       /\ (Live' /\ KingCell(player', board') # None)
            => NoLostOption(get_piece_moves(KingCell(player', board'),
                                            KingCell(player', board'),
                                            TRUE, FALSE,
                                            board', state', player').others,
                            board', KingCell(player', board'))]_vars

\* White is to move with its King at home and unmoved and the way to h1
\* clear, and the Rook that has come back to h1 is marked as moved.
C13_Witness ==
    /\ Succeeded /\ player = "white"
    /\ board[7][4].type = "King" /\ ~board[7][4].moved
    /\ board[7][7].type = "Rook" /\ board[7][7].moved
    /\ IsEmpty(board[7][5]) /\ IsEmpty(board[7][6])
    /\ ~board[7][5].attacked /\ ~board[7][6].attacked
    /\ state = "ongoing"

\* The promotion kinds, by the string move() takes for each.
KindOf == [queen |-> "Queen", rook |-> "Rook", bishop |-> "Bishop",
           knight |-> "Knight"]

\* The Pawns of the side to move and the last-rank squares the engine lists
\* among their moves.
Promoting ==
    {m \in Squares \X Squares :
        /\ Owns(board, m[1], player)
        /\ board[m[1][2]][m[1][1]].type = "Pawn"
        /\ m[2][2] \in {0, 7}
        /\ m[2] \in SeqToSet(get_piece_moves(m[1], m[1], TRUE, FALSE,
                                             board, state, player).moves)}

\* The call r has promoted the Pawn of pl from source_coord on target_coord
\* to the kind named.
Promoted(r, source_coord, target_coord, promotion_target, pl) ==
    /\ r.error = NoError
    /\ r.board[target_coord[2]][target_coord[1]].type = KindOf[promotion_target]
    /\ r.board[target_coord[2]][target_coord[1]].player = pl
    /\ r.board[target_coord[2]][target_coord[1]].coord = target_coord
    /\ IsEmpty(r.board[source_coord[2]][source_coord[1]])
    /\ r.event = [type |-> "promotion", extra |-> promotion_target]

Untouched(r) ==
    /\ \A c \in Squares :
          Occupant(r.board[c[2]][c[1]]) = Occupant(board[c[2]][c[1]])
    /\ r.player = player
    /\ r.state = state

\* C15: missing promotion choice.  In every position a call is made on, for
\* every Pawn of the side to move and every last-rank square among its moves,
\* move() without a promotion kind returns a result with the event
\* missing_promotion_target and changes nothing: the Pawn stays, the target
\* square, the side to move and the game state are as before.
C15_MissingChoice ==
    (Live /\ calls < MaxPromotionCalls) =>
       \A m \in Promoting :
          /\ move(m[1], m[2], Null, board, state, player).error = NoError
          /\ move(m[1], m[2], Null, board, state, player).event.type
                = "missing_promotion_target"
          /\ Untouched(move(m[1], m[2], Null, board, state, player))

\* C16: invalid promotion choice.  Every cell of the grid holds Empty or a
\* Piece after any call; and in every position a call is made on, a
\* promoting move() with a kind that is none of the four ends in an error
\* and leaves the position as it was.
C16_InvalidChoice ==
    /\ \A c \in Squares : IsPiece(board[c[2]][c[1]]) \/ IsEmpty(board[c[2]][c[1]])
    /\ (Live /\ calls < MaxPromotionCalls) =>
          \A m \in Promoting :
             /\ move(m[1], m[2], "Knight", board, state, player).error
                   # NoError
             /\ Untouched(move(m[1], m[2], "Knight", board, state, player))

\* C17: inspect(coord) is read-only.  Whether it returns a result or an
\* error, an inspect() leaves the grid with every flag on it (attacked,
\* pinned, attacker, moved), the side to move and the game state as they were
\* before the call.
C17_InspectReadOnly ==
    [][ret'.op = "inspect"
         => board' = board /\ player' = player /\ state' = state]_vars

\* The squares inspect(source_coord) lists.
InspectMoves(source_coord) ==
    SeqToSet(inspect(source_coord, board, state, player).moves)

\* The king destinations of the castle options of the piece on source_coord.
CastleTargets(source_coord) ==
    {o.piece_move :
        o \in SeqToSet(get_piece_moves(source_coord, source_coord, TRUE, FALSE,
                                       board, state, player).others)}

\* move(source_coord, target_coord) returns a result, with a promotion kind
\* where the move is a promotion.
Accepted(source_coord, target_coord) ==
    \E promotion_target \in {Null, "queen"} :
       move(source_coord, target_coord, promotion_target,
            board, state, player).error = NoError

\* C18: inspect and move agree.  In every position a call is made on and for
\* every piece of the side to move, the targets move() accepts from the
\* piece's square are the squares inspect() lists for it together with the
\* king destinations of its castle options, and inspect() lists no castle
\* destination.
C18_InspectAgrees ==
    (Live /\ calls < MaxCalls) =>
       \A source_coord \in Squares :
          Owns(board, source_coord, player) =>
             /\ {target_coord \in Squares : Accepted(source_coord, target_coord)}
                   = InspectMoves(source_coord) \cup CastleTargets(source_coord)
             /\ InspectMoves(source_coord) \cap CastleTargets(source_coord) = {}

\* The snapshot of the position the load r has built.
Exported(r) == to_json(r.board, r.state, r.player)

Recached(json, i, options, pinned, attacker) ==
    [json EXCEPT !.pieces[i].options = options,
                 !.pieces[i].pinned = pinned,
                 !.pieces[i].attacker = attacker]

\* The cached fields tried: options empty or not, pinned or not, and no
\* pinner or the square a8.
CachedOptions == {[moves |-> <<>>, others |-> <<>>],
                  [moves |-> <<<<0, 0>>>>, others |-> <<>>]}
CachedPinners == {None, <<0, 0>>}

\* The loads r1 and r2 have built the same position: the same pieces on the
\* same squares with the same pinned flags, the same state and side to move,
\* and the same moves for every piece of the side to move.
SameLoad(r1, r2) ==
    /\ r1.error = r2.error
    /\ r1.state = r2.state
    /\ r1.player = r2.player
    /\ \A c \in Squares :
          /\ Occupant(r1.board[c[2]][c[1]]) = Occupant(r2.board[c[2]][c[1]])
          /\ IsPiece(r1.board[c[2]][c[1]])
                => r1.board[c[2]][c[1]].pinned = r2.board[c[2]][c[1]].pinned
    /\ r1.error = NoError =>
          \A c \in Squares :
             Owns(r1.board, c, r1.player) =>
                get_piece_moves(c, c, TRUE, FALSE,
                                r1.board, r1.state, r1.player).moves
                   = get_piece_moves(c, c, TRUE, FALSE,
                                     r2.board, r2.state, r2.player).moves

\* Every snapshot that differs from json in the cached fields of one piece
\* loads into the position json loads into.
Advisory(json) ==
    \A i \in 1..Len(json.pieces) :
       \A options \in CachedOptions, pinned \in BOOLEAN,
          attacker \in CachedPinners :
             SameLoad(from_json(json),
                      from_json(Recached(json, i, options, pinned, attacker)))

\* C20: cached snapshot fields are advisory.  For the snapshot of every
\* position a call is made on, a snapshot that differs from it only in the
\* options, pinned and pinner fields of a piece loads into a position with
\* the same grid, state, side to move and pinned flags and with the same
\* moves for every piece.
C20_CacheAdvisory ==
    (Live /\ calls < MaxCalls) => Advisory(to_json(board, state, player))

\* A position whose snapshot carries a pinned piece with its pinner.
C20_Witness ==
    /\ Succeeded /\ calls < MaxCalls
    /\ \E c \in Squares :
          /\ IsPiece(board[c[2]][c[1]])
          /\ board[c[2]][c[1]].pinned
          /\ board[c[2]][c[1]].attacker # None

\* The pins on the piece on c: the enemy Bishops, Rooks and Queens s and the
\* directions v each moves along such that the piece on c is the first piece
\* from s along v and the King of its own side the first piece behind it.
Pins(b, c) ==
    {p \in Squares \X SeqToSet(QueenMoves) :
        /\ Owns(b, p[1], Other(b[c[2]][c[1]].player))
        /\ b[p[1][2]][p[1][1]].type \in {"Bishop", "Rook", "Queen"}
        /\ p[2] \in SeqToSet(get_moves(b[p[1][2]][p[1][1]]))
        /\ c \in StdRay(b, p[1][1], p[1][2], p[2][1], p[2][2])
        /\ KingCell(b[c[2]][c[1]].player, b) # None
        /\ KingCell(b[c[2]][c[1]].player, b)
              \in StdRay(b, c[1], c[2], p[2][1], p[2][2])}

\* The line of the pin p on the piece on c: the squares from the pinner to
\* the King, the pinner's square included, c and the King's square left out.
PinLine(b, c, p) ==
    ({p[1]} \cup StdRay(b, p[1][1], p[1][2], p[2][1], p[2][2])
            \cup StdRay(b, c[1], c[2], p[2][1], p[2][2]))
       \ {c, KingCell(b[c[2]][c[1]].player, b)}

\* The moves move() accepts from the square c of a piece of the side to move.
LegalMoves(c) ==
    SeqToSet(get_piece_moves(c, c, TRUE, FALSE, board, state, player).moves)

\* C21: pin enforcement.  In every position, a piece of the side to move that
\* is the only piece between its own King and an enemy Bishop, Rook or Queen,
\* on a line that piece moves along, has no legal move off that line; a
\* Knight so placed has no legal move at all.
C21_PinEnforced ==
    Live =>
       \A c \in Squares :
          (Owns(board, c, player) /\ Pins(board, c) # {}) =>
             /\ \A p \in Pins(board, c) :
                   LegalMoves(c) \subseteq PinLine(board, c, p)
             /\ board[c[2]][c[1]].type = "Knight" => LegalMoves(c) = {}

\* inspect() has answered for a Knight that shields its King from a Queen on
\* the same file, and has listed no move.
C21_Witness ==
    /\ ret.op = "inspect" /\ ret.error = NoError /\ ret.moves = <<>>
    /\ board[ret.source[2]][ret.source[1]].type = "Knight"
    /\ \E p \in Pins(board, ret.source) :
          /\ board[p[1][2]][p[1][1]].type = "Queen"
          /\ p[1][1] = ret.source[1]

\* The candidate moves of the piece on c: what the walks and the pawn's rules
\* give before the pin filter.
CandidateMoves(c) ==
    SeqToSet(Candidates(board, [board[c[2]][c[1]] EXCEPT !.pinned = FALSE], c,
                        WalkAll(board, board[c[2]][c[1]], c,
                                get_moves(board[c[2]][c[1]]), 1, FALSE),
                        FALSE))

\* The segment of the pin p on the piece on c: the squares from the square
\* next to c up to the pinner's square, that square included.
Segment(b, c, p) ==
    ({p[1]} \cup StdRay(b, p[1][1], p[1][2], p[2][1], p[2][2])) \ {c}

\* C22: a pinned piece keeps its moves along the pin line.  In every position
\* the legal moves of a pinned piece of the side to move are exactly its
\* candidate moves on the segment from the square next to it up to and
\* including the pinner's square, whatever the direction of the pin.
C22_PinnedKeepsLine ==
    Live =>
       \A c \in Squares :
          Owns(board, c, player) =>
             \A p \in Pins(board, c) :
                LegalMoves(c) = CandidateMoves(c) \cap Segment(board, c, p)

\* The square n steps ahead of the Pawn on c.
Ahead(b, c, n) ==
    <<c[1], c[2] + n * (IF b[c[2]][c[1]].player = "white" THEN -1 ELSE 1)>>

\* The Pawns of the side to move.
Pawns == {c \in Squares : Owns(board, c, player)
                             /\ board[c[2]][c[1]].type = "Pawn"}

\* C23: pawn double-step.  In every position and for every Pawn of the side
\* to move, the square two ahead is a legal move only when the Pawn stands on
\* its recorded start coordinate and the square ahead and the square two ahead
\* are both Empty; and a Pawn whose square ahead holds a piece of either side
\* has neither the one-step nor the two-step move.
C23_DoubleStep ==
    Live =>
       \A c \in Pawns :
          /\ Ahead(board, c, 2) \in LegalMoves(c) =>
                /\ can_special(board[c[2]][c[1]])
                /\ InBounds(Ahead(board, c, 2))
                /\ IsEmpty(board[Ahead(board, c, 1)[2]][Ahead(board, c, 1)[1]])
                /\ IsEmpty(board[Ahead(board, c, 2)[2]][Ahead(board, c, 2)[1]])
          /\ (/\ InBounds(Ahead(board, c, 1))
              /\ IsPiece(board[Ahead(board, c, 1)[2]][Ahead(board, c, 1)[1]]))
                => /\ Ahead(board, c, 1) \notin LegalMoves(c)
                   /\ Ahead(board, c, 2) \notin LegalMoves(c)

\* The squares diagonally ahead of the Pawn on c.
DiagonalAhead(b, c) ==
    {<<c[1] - 1, Ahead(b, c, 1)[2]>>, <<c[1] + 1, Ahead(b, c, 1)[2]>>}

\* The moves of the Pawn on a2 in the position Board() starts with.
InitialPawnMoves ==
    SeqToSet(get_piece_moves(<<0, 6>>, <<0, 6>>, TRUE, FALSE,
                             Board.board, Board.state, Board.player).moves)

\* C24: pawn step and capture.  In every position and for every Pawn of the
\* side to move, the square ahead is a legal move only if it is Empty, and a
\* square diagonally ahead only if it holds a piece of the other side; and in
\* the initial position the Pawn on (0,6) has exactly the moves (0,5), (0,4).
C24_StepAndCapture ==
    /\ InitialPawnMoves = {<<0, 5>>, <<0, 4>>}
    /\ Live =>
          \A c \in Pawns :
             /\ Ahead(board, c, 1) \in LegalMoves(c) =>
                   /\ InBounds(Ahead(board, c, 1))
                   /\ IsEmpty(board[Ahead(board, c, 1)[2]][Ahead(board, c, 1)[1]])
             /\ \A d \in DiagonalAhead(board, c) :
                   d \in LegalMoves(c) =>
                      InBounds(d) /\ Owns(board, d, Other(player))

\* The candidate moves of the piece on c after which its King no longer
\* stands attacked: the move is made on a copy of the grid and the attack is
\* judged with every line ending at the first occupied square.
Evasions(c) ==
    {t \in CandidateMoves(c) \cap Squares :
        StdKingSafe(StdMoved(board, c, t), player)}

\* C25: check evasion by a piece that is no King.  In every position in which
\* the King of the side to move stands attacked and the state is check, the
\* legal moves of each other piece of that side are exactly its candidate
\* moves after which the King's square is no longer attacked: taking the
\* checking piece and stepping between a checking Bishop, Rook or Queen and
\* the King are legal, every other move is not.
C25_CheckEvasion ==
    (Live /\ state = "check" /\ StdInCheck(board, player)) =>
       \A c \in Squares :
          (Owns(board, c, player) /\ board[c[2]][c[1]].type # "King") =>
             LegalMoves(c) = Evasions(c)

\* C26: King self-restriction.  In every position, in check or not, no legal
\* move of the King of the side to move goes to a square that is marked
\* attacked by the other side.
C26_KingSelfRestriction ==
    (Live /\ KingCell(player, board) # None) =>
       \A t \in LegalMoves(KingCell(player, board)) :
          ~board[t[2]][t[1]].attacked

\* C27: event classification.  A successful move() that is neither a castle
\* nor a promotion returns the event type captures when its target held a
\* piece of the other side before the call, and the event type move, never
\* an empty type, when its target was Empty.
C27_EventClassified ==
    [][(Succeeded' /\ ret'.event.type \notin {"castle", "promotion"})
       => /\ Owns(board, ret'.target, Other(player))
                => ret'.event.type = "captures"
          /\ IsEmpty(board[ret'.target[2]][ret'.target[1]])
                => ret'.event.type = "move"]_vars

\* The squares that hold a King of `who`.
Kings(b, who) ==
    {c \in Squares : Owns(b, c, who) /\ b[c[2]][c[1]].type = "King"}

\* C28: King invariant.  In every position reached from the initial position
\* each side has exactly one King on the grid, and no piece of the side to
\* move has the square of the other side's King among its legal moves.
C28_KingInvariant ==
    /\ \A who \in {"white", "black"} : Cardinality(Kings(board, who)) = 1
    /\ Live =>
          \A c \in Squares :
             Owns(board, c, player) =>
                LegalMoves(c) \cap Kings(board, Other(player)) = {}

\* C29: grid and coordinate invariant.  After construction, after a snapshot
\* load and after every call, every cell board[y][x] holds an entity, Empty
\* or a piece, whose stored coordinate is (x, y).
C29_GridCoord ==
    \A c \in Squares :
       /\ IsPiece(board[c[2]][c[1]]) \/ IsEmpty(board[c[2]][c[1]])
       /\ board[c[2]][c[1]].coord = c

\* The squares the walks of lines 496-565 produce for the piece on c.
WalkSquares(c, attacking) ==
    SeqToSet(WalkAll(board, board[c[2]][c[1]], c,
                     get_moves(board[c[2]][c[1]]), 1, attacking).sq)

\* C30: ray termination.  In every position, for every Bishop, Rook and Queen
\* of either side and in attacking and in non-attacking mode alike, the
\* squares produced along a direction do not go beyond the first occupied
\* square in that direction, whoever stands on it; and no square is marked
\* attacked that every piece of the other side is shielded from.
C30_RayTermination ==
    Live =>
       /\ \A c \in Squares :
             board[c[2]][c[1]].type \in {"Bishop", "Rook", "Queen"} =>
                \A attacking \in BOOLEAN :
                   WalkSquares(c, attacking) \subseteq StdCover(board, c)
       /\ \A t \in Squares :
             board[t[2]][t[1]].attacked => StdAttacked(board, t, Other(player))

\* The last call ran update() to its end: the construction or a successful
\* move().
Updated == ret.error = NoError /\ ret.op \in {"init", "move"}

\* C31: the pinned flag is exact and fresh.  After every update(), a piece
\* is marked pinned if and only if it is the single piece between its own
\* King and a Bishop, Rook or Queen of the other side on a line that piece
\* moves along, and the pinner recorded on it is the square of such a piece.
C31_PinnedExact ==
    Updated =>
       \A c \in Squares :
          IsPiece(board[c[2]][c[1]]) =>
             /\ board[c[2]][c[1]].pinned <=> Pins(board, c) # {}
             /\ board[c[2]][c[1]].pinned =>
                   \E p \in Pins(board, c) : board[c[2]][c[1]].attacker = p[1]

\* The squares get_piece_moves returns for the piece on c in attacking mode.
AttackingMoves(c) ==
    SeqToSet(get_piece_moves(c, c, TRUE, TRUE, board, state, player).moves)

\* The squares one walk of the piece on c gives along the template vector v
\* in attacking mode, in the order walked.
AttackingRay(c, v) ==
    Walk(board, board[c[2]][c[1]], c[1], c[2],
         v[1], SideDy(board[c[2]][c[1]], v[2]), TRUE).sq

\* C32: in attacking mode a square that holds a piece of the walking piece's
\* own side ends the ray and is not among the squares returned.  In every
\* position and for every piece, no square walked lies behind a square of
\* the piece's own side, and no returned square holds a piece of that side.
C32_OwnPieceEndsRay ==
    Live =>
       \A c \in Squares :
          IsPiece(board[c[2]][c[1]]) =>
             /\ \A v \in SeqToSet(get_moves(board[c[2]][c[1]])) :
                   \A i \in 1..Len(AttackingRay(c, v)) :
                      Owns(board, AttackingRay(c, v)[i], board[c[2]][c[1]].player)
                         => i = Len(AttackingRay(c, v))
             /\ \A t \in AttackingMoves(c) :
                   ~Owns(board, t, board[c[2]][c[1]].player)

\* C33: pawn coverage in attacking mode.  In every position and for every
\* Pawn of either side, the squares returned in attacking mode are exactly
\* the squares diagonally ahead of it that lie on the grid, whatever stands
\* on them, and never the square straight ahead.
C33_PawnCoverage ==
    Live =>
       \A c \in Squares :
          board[c[2]][c[1]].type = "Pawn" =>
             AttackingMoves(c) = {d \in DiagonalAhead(board, c) : InBounds(d)}

\* C34: terminal states admit no move.  Once the state is checkmate or
\* stalemate, every move() is rejected with one of the documented errors and
\* leaves the grid, the side to move and the state as they were.
C34_TerminalFinal ==
    [][(state \in {"checkmate", "stalemate"} /\ ret'.op = "move")
         => /\ Rejected'
            /\ board' = board
            /\ player' = player
            /\ state' = state]_vars

\* The result of get_piece_moves for the piece on c in the given mode.
Options(c, attacking) ==
    get_piece_moves(c, c, TRUE, attacking, board, state, player)

\* C35: move options stay on the board.  In every position, for every piece
\* and in both modes, get_piece_moves completes without reading a cell outside
\* the grid and every destination it returns lies inside [0,8)x[0,8).
C35_OptionsOnBoard ==
    Live =>
       \A c \in Squares : \A attacking \in BOOLEAN :
          IsPiece(board[c[2]][c[1]]) =>
             /\ Options(c, attacking).error = NoError
             /\ \A t \in SeqToSet(Options(c, attacking).moves) : InBounds(t)

\* The number of pieces the player has on the board b.
Material(b, who) == Len(get_player_pieces(who, b))

\* C36: material accounting.  A successful move() leaves the mover's piece
\* count as it was, lowers the opponent's count by one when the target square
\* held an enemy piece and by nothing otherwise, and removes no enemy piece
\* from a square other than the target.
C36_MaterialAccounting ==
    [][(ret'.op = "move" /\ ret'.error = NoError)
         => /\ Material(board', player) = Material(board, player)
            /\ Material(board', Other(player)) =
                  Material(board, Other(player))
                     - (IF Owns(board, ret'.target, Other(player))
                        THEN 1 ELSE 0)
            /\ \A c \in Squares \ {ret'.target} :
                  Owns(board, c, Other(player))
                     => Owns(board', c, Other(player))]_vars

\* The (source, target) pairs move() accepts on the position (b, st, pl).
MoveAccepts(b, st, pl) ==
    {call \in Squares \X Squares :
        move(call[1], call[2], Null, b, st, pl).error = NoError}

\* The pairs move() accepts on the Board built from the snapshot of the
\* position (b, st, pl); none when the snapshot does not load.
ReloadedAccepts(b, st, pl, loaded) ==
    IF loaded.error # NoError THEN {}
    ELSE MoveAccepts(loaded.board, loaded.state, loaded.player)

\* C37: loading a snapshot preserves move rights.  In every position reached
\* by successful moves, move() accepts on Board(to_json()) exactly the
\* (source, target) pairs it accepts on the position itself.
C37_SnapshotKeepsRights ==
    (Live /\ ret.op \in {"init", "move"})
       => ReloadedAccepts(board, state, player,
                           from_json(to_json(board, state, player)))
             = MoveAccepts(board, state, player)

\* The last call of accepts was made with one integer.
AcceptedInt == answer.op = "accepts" /\ answer.value.is_int

\* C38: Boundary(min, max).accepts(v).  A call with one integer or with a
\* pair of integers completes and returns a boolean, true exactly when every
\* integer given satisfies min <= v < max.
C38_AcceptsRange ==
    (answer.op = "accepts" /\ Len(answer.value.items) \in {1, 2})
       => /\ answer.error = NoError
          /\ answer.result \in BOOLEAN
          /\ answer.result <=>
                \A i \in 1..Len(answer.value.items) :
                   /\ boundary.min <= answer.value.items[i]
                   /\ answer.value.items[i] < boundary.max

\* C39: the degenerate boundary.  Boundary(m, m).accepts(m) completes and
\* returns true.
C39_DegenerateAccepts ==
    (/\ AcceptedInt
     /\ boundary.min = boundary.max
     /\ answer.value.items[1] = boundary.min)
       => answer.error = NoError /\ answer.result

====
